---- MODULE Spec2Model ----
(***************************************************************************)
(* Live recording and transcription pipeline of audio-recorder             *)
(* (src/src/main.rs, record_and_transcribe_live): the capture callback,    *)
(* the periodic transcription thread and the control path, sharing the     *)
(* audio buffer, the recording flag and the output file.                   *)
(*                                                                         *)
(* Samples are identified by their position in the buffer; their           *)
(* amplitudes are not represented.  The buffer is the sequence of the      *)
(* blocks the callback has pushed, each block given by its number of mono  *)
(* samples.  A slice of the buffer is a record [from, len].                *)
(***************************************************************************)
EXTENDS Integers, Sequences, FiniteSets, TLC

\* ------------------------------------------------------------------ bounds
MaxBuf == 48000            \* most samples the callback pushes in one session
MaxFail == 1               \* most failures met by the periodic thread
MaxSegs == 2               \* most segments in one engine result
MaxK == 3                  \* largest chunk index drawn for the timestamp merge

SampleRates == {8000, 16000, 32000}   \* config.sample_rate.0 of the device
ChunkSecondsSet == {1, 2}             \* args.chunk_seconds
BlockFrames == {16000}                \* frames in one delivered block
MergeTimes == {0, 99, 100, 250, 300, 5999, 6100}
MergeChunkSeconds == {1, 5, 30}

\* -------------------------------------------------------- program constants
WhisperRate == 16000

VARIABLES
    sample_rate,        \* config.sample_rate.0
    chunk_seconds,      \* chunk_seconds argument
    audio_buffer,       \* Arc<Mutex<Vec<f32>>>: sequence of pushed block sizes
    buf_lock,           \* holder of the audio_buffer mutex
    buf_poisoned,       \* the audio_buffer mutex is poisoned
    recording,          \* AtomicBool
    stream_alive,       \* the cpal stream exists and is playing
    file,               \* the output file: sequence of written records
    file_lock,          \* holder of the file mutex
    cb_pc, cb_block,    \* capture callback: position, frames of its block
    sched_pc,           \* transcription thread: position
    last_processed,     \* transcription thread local
    segment_counter,    \* transcription thread local
    samples_to_process, \* transcription thread local: slice [from, len]
    segs, seg_i,        \* transcription thread: engine result, loop index
                        \* (locals of one loop iteration, reset when it ends)
    ctl_pc,             \* control path: position
    remaining_samples,  \* control path local: slice [from, len]
    d_segs, d_i,        \* control path: engine result, loop index
    dispatched,         \* history: inputs given to state.full, in order
    consumed,           \* history: slices of the chunks that were booked
    skipped,            \* history: some tick found too little audio
    n_fail,             \* history: failures met by the periodic thread
    failures,           \* history: segments of the chunk in hand whose
                        \* getters or write failed
    fn_in, fn_out       \* argument and result of a function applied on its own

vars == <<sample_rate, chunk_seconds, audio_buffer, buf_lock, buf_poisoned,
          recording, stream_alive, file, file_lock, cb_pc, cb_block,
          sched_pc, last_processed, segment_counter, samples_to_process,
          segs, seg_i, ctl_pc, remaining_samples, d_segs, d_i,
          dispatched, consumed, skipped, n_fail, failures, fn_in, fn_out>>

cbVars == <<cb_pc, cb_block>>
schedVars == <<sched_pc, last_processed, segment_counter, samples_to_process,
               segs, seg_i>>
ctlVars == <<ctl_pc, remaining_samples, d_segs, d_i>>
cfgVars == <<sample_rate, chunk_seconds>>
histVars == <<dispatched, consumed, skipped, n_fail, failures>>
fnVars == <<fn_in, fn_out>>

\* ------------------------------------------------------------- helpers
RECURSIVE SumSeq(_)
SumSeq(s) == IF s = <<>> THEN 0 ELSE Head(s) + SumSeq(Tail(s))

\* buffer.len()
BufLen == SumSeq(audio_buffer)

\* mutant: the chunk size of one second whatever chunk_seconds is
chunk_size_one_second == WhisperRate

\* chunk_size_samples = (chunk_seconds * 16000) as usize
chunk_size_samples == chunk_seconds * WhisperRate

NoSlice == [from |-> 0, len |-> 0]

\* Length of resample(samples, from_rate, to_rate) for an input of n samples,
\* for the rates of SampleRates: their ratio to 16000 is a power of two, so
\* the f64 product n * ratio is exact (ResampleNewLen computes the general
\* case).
ResampleLen(n, from_rate, to_rate) ==
    IF from_rate = to_rate THEN n ELSE (n * to_rate) \div from_rate

\* samples_16k.len(): resampled only when sample_rate != 16000
Len16k(n) ==
    IF sample_rate # WhisperRate THEN ResampleLen(n, sample_rate, WhisperRate)
    ELSE n

\* duration in centiseconds of n samples at 16 kHz
DurationCs(n) == (n * 100) \div WhisperRate

\* engine segments drawn: times in centiseconds, relative to the start of the
\* dispatched samples
Segment == {[t0 |-> 0, t1 |-> 99], [t0 |-> 200, t1 |-> 200]}

Chronological(r) ==
    /\ \A i \in 1..Len(r) : r[i].t0 <= r[i].t1
    /\ \A i \in 1..(Len(r) - 1) : r[i].t1 <= r[i + 1].t0

\* results state.full can leave for an input of n samples at 16 kHz
EngineResults(n) ==
    { r \in UNION { [1..m -> Segment] : m \in 0..MaxSegs } :
        /\ Chronological(r)
        /\ \A i \in 1..Len(r) : r[i].t1 <= DurationCs(n) }

\* "{:02}" of a non-negative integer below 100, as its two digits
Pad2(n) == <<n \div 10, n % 10>>

\* "{:02}:{:02}" of a total number of seconds
MMSS(total) == <<Pad2(total \div 60), Pad2(total % 60)>>

\* mutant: the offset of the chunk after the current one
GlobalSecOfNextChunk(k, cs, t) == ((k + 1) * cs) + (t \div 100)

\* total_start_sec = (segment_counter * chunk_seconds) + start_timestamp / 100
GlobalSec(k, cs, t) == (k * cs) + (t \div 100)

\* transcript line of the periodic thread
PeriodicLine(k, cs, t0, t1, i) ==
    [kind |-> "periodic", k |-> k, i |-> i,
     gs |-> GlobalSec(k, cs, t0), ge |-> GlobalSec(k, cs, t1),
     start |-> MMSS(GlobalSec(k, cs, t0)), end |-> MMSS(GlobalSec(k, cs, t1))]

\* transcript line of the final processing: start_sec = start_timestamp / 100
DrainLine(t0, t1, i) ==
    [kind |-> "drain", k |-> 0, i |-> i,
     gs |-> t0 \div 100, ge |-> t1 \div 100,
     start |-> MMSS(t0 \div 100), end |-> MMSS(t1 \div 100)]

Header == [kind |-> "header"]
Footer == [kind |-> "footer"]

\* ------------------------------------------------------------- initial state
Init ==
    /\ sample_rate \in SampleRates
    /\ chunk_seconds \in ChunkSecondsSet
    /\ audio_buffer = <<>>
    /\ buf_lock = "none"
    /\ buf_poisoned = FALSE
    /\ recording = TRUE
    /\ stream_alive = FALSE
    /\ file = <<>>
    /\ file_lock = "none"
    /\ cb_pc = "idle"
    /\ cb_block = 0
    /\ sched_pc = "unspawned"
    /\ last_processed = 0
    /\ segment_counter = 0
    /\ samples_to_process = NoSlice
    /\ segs = <<>>
    /\ seg_i = 0
    /\ ctl_pc = "starting"
    /\ remaining_samples = NoSlice
    /\ d_segs = <<>>
    /\ d_i = 0
    /\ dispatched = <<>>
    /\ consumed = <<>>
    /\ skipped = FALSE
    /\ n_fail = 0
    /\ failures = {}
    /\ fn_in = <<>>
    /\ fn_out = <<>>

\* record_and_transcribe_live has returned (Ok, Err or by a panic of the main
\* thread): main returns and the process, with all its threads, ends
Exited == ctl_pc \in {"done", "aborted", "panicked"}

\* ------------------------------------------------------------------ mutexes
\* mutant: a lock that can be taken while another thread holds it
CanAcquireAlways(holder) == TRUE

\* Mutex::lock() returns once no other thread holds the guard
CanAcquire(holder) == holder = "none"

\* ------------------------------------------------------- capture callback
\* mutant: the callback does not look at the recording flag
CbAcceptsAlways == TRUE

\* if recording_clone.load(Ordering::Relaxed)
CbAccepts == recording

\* The driver delivers a block; the callback loads the recording flag.
CbInvoke ==
    /\ ~Exited
    /\ stream_alive
    /\ cb_pc = "idle"
    /\ \E n \in BlockFrames :
        /\ BufLen + n <= MaxBuf
        /\ cb_block' = IF CbAccepts THEN n ELSE 0
    /\ cb_pc' = IF CbAccepts THEN "lock" ELSE "idle"
    /\ UNCHANGED <<cfgVars, fnVars, audio_buffer, buf_lock, buf_poisoned, recording,
                   stream_alive, file, file_lock, schedVars, ctlVars, histVars>>

\* audio_buffer_clone.lock(): Err when poisoned, and the block is dropped
CbLock ==
    /\ ~Exited
    /\ cb_pc = "lock"
    /\ CanAcquire(buf_lock)
    /\ IF buf_poisoned
       THEN /\ cb_pc' = "idle"
            /\ cb_block' = 0
            /\ UNCHANGED buf_lock
       ELSE /\ cb_pc' = "append"
            /\ buf_lock' = "cb"
            /\ UNCHANGED cb_block
    /\ UNCHANGED <<cfgVars, fnVars, audio_buffer, buf_poisoned, recording, stream_alive,
                   file, file_lock, schedVars, ctlVars, histVars>>

\* one mono sample pushed per frame, then the guard is dropped
CbAppend ==
    /\ ~Exited
    /\ cb_pc = "append"
    /\ audio_buffer' = Append(audio_buffer, cb_block)
    /\ buf_lock' = "none"
    /\ cb_pc' = "idle"
    /\ cb_block' = 0
    /\ UNCHANGED <<cfgVars, fnVars, buf_poisoned, recording, stream_alive, file,
                   file_lock, schedVars, ctlVars, histVars>>

\* --------------------------------------------------- transcription thread
\* mutant: the threshold test replaced by an emptiness test
NotEnoughOnlyWhenEmpty(buflen, lp) == buflen - lp <= 0

\* if buffer.len() - last_processed < chunk_size_samples { continue; }
NotEnough(buflen, lp) == buflen - lp < chunk_size_samples

\* mutant: the guard of the snapshot block outlives the block
HolderAfterSnapshotBlockKept == "sched"

\* the guard `buffer` is dropped at the end of the block that computes
\* samples_to_process
HolderAfterSnapshotBlock == "none"

\* mutant: a failed getter ends the segment loop
NextSegmentAfterFailureBreak(i, n) == n

\* a failed getter is a `continue` of the segment loop
NextSegmentAfterFailure(i, n) == i + 1

\* last_processed += samples_16k.len()
CursorAdvance(raw_len, len_16k) == len_16k

\* sleep(chunk_seconds) returns and the recording flag is loaded
SchedTick ==
    /\ ~Exited
    /\ sched_pc = "sleep"
    /\ sched_pc' = IF recording THEN "lock" ELSE "exit"
    /\ UNCHANGED <<cfgVars, fnVars, audio_buffer, buf_lock, buf_poisoned, recording,
                   stream_alive, file, file_lock, cbVars, last_processed,
                   segment_counter, samples_to_process, segs, seg_i, ctlVars,
                   histVars>>

\* audio_buffer_transcription.lock().unwrap()
SchedLock ==
    /\ ~Exited
    /\ sched_pc = "lock"
    /\ CanAcquire(buf_lock)
    /\ IF buf_poisoned
       THEN /\ sched_pc' = "panicked"
            /\ UNCHANGED buf_lock
       ELSE /\ sched_pc' = "snap"
            /\ buf_lock' = "sched"
    /\ UNCHANGED <<cfgVars, fnVars, audio_buffer, buf_poisoned, recording, stream_alive,
                   file, file_lock, cbVars, last_processed, segment_counter,
                   samples_to_process, segs, seg_i, ctlVars, histVars>>

\* The block that computes samples_to_process, under the buffer lock.
\* When last_processed > buffer.len() the subtraction overflows: a build with
\* overflow checks panics there, a build without them wraps to a huge value
\* and panics at buffer[last_processed..]; either way the thread panics while
\* holding the guard, which poisons the mutex.
SchedSnapshot ==
    /\ ~Exited
    /\ sched_pc = "snap"
    /\ buf_lock' = HolderAfterSnapshotBlock
    /\ IF BufLen < last_processed
       THEN /\ sched_pc' = "panicked"
            /\ buf_poisoned' = TRUE
            /\ UNCHANGED <<samples_to_process, skipped>>
       ELSE IF NotEnough(BufLen, last_processed)
       THEN /\ sched_pc' = "sleep"
            /\ skipped' = TRUE
            /\ UNCHANGED <<samples_to_process, buf_poisoned>>
       ELSE /\ samples_to_process' =
                   [from |-> last_processed, len |-> BufLen - last_processed]
            /\ sched_pc' = IF BufLen - last_processed = 0 THEN "sleep"
                           ELSE "engine"
            /\ UNCHANGED <<buf_poisoned, skipped>>
    /\ UNCHANGED <<cfgVars, fnVars, audio_buffer, recording, stream_alive, file,
                   file_lock, cbVars, last_processed, segment_counter, segs,
                   seg_i, ctlVars, dispatched, consumed, n_fail, failures>>

\* resample, ctx_clone.create_state(), state.full(), state.full_n_segments();
\* every failure is a `continue`
SchedEngine ==
    /\ ~Exited
    /\ sched_pc = "engine"
    /\ \E outcome \in {"state_err", "full_err", "nseg_err", "ok"} :
        \/ /\ outcome = "state_err"
           /\ n_fail < MaxFail
           /\ n_fail' = n_fail + 1
           /\ sched_pc' = "sleep"
           /\ samples_to_process' = NoSlice
           /\ UNCHANGED <<dispatched, segs, seg_i>>
        \/ /\ outcome \in {"full_err", "nseg_err"}
           /\ n_fail < MaxFail
           /\ n_fail' = n_fail + 1
           /\ dispatched' = Append(dispatched,
                  [by |-> "sched", from |-> samples_to_process.from,
                   len |-> samples_to_process.len,
                   len_16k |-> Len16k(samples_to_process.len)])
           /\ sched_pc' = "sleep"
           /\ samples_to_process' = NoSlice
           /\ UNCHANGED <<segs, seg_i>>
        \/ /\ outcome = "ok"
           /\ dispatched' = Append(dispatched,
                  [by |-> "sched", from |-> samples_to_process.from,
                   len |-> samples_to_process.len,
                   len_16k |-> Len16k(samples_to_process.len)])
           /\ segs' \in EngineResults(Len16k(samples_to_process.len))
           /\ seg_i' = 0
           /\ sched_pc' = "emit"
           /\ UNCHANGED <<n_fail, samples_to_process>>
    /\ UNCHANGED <<cfgVars, fnVars, audio_buffer, buf_lock, buf_poisoned, recording,
                   stream_alive, file, file_lock, cbVars, last_processed,
                   segment_counter, ctlVars, consumed, skipped, failures>>

\* head of `for i in 0..num_segments`: the three getters of segment i; a
\* failing getter is a `continue` of the for loop
SchedSegment ==
    /\ ~Exited
    /\ sched_pc = "emit"
    /\ seg_i < Len(segs)
    /\ \E got \in BOOLEAN :
        IF got THEN /\ sched_pc' = "flock"
                    /\ UNCHANGED <<seg_i, n_fail, failures>>
               ELSE /\ n_fail < MaxFail
                    /\ n_fail' = n_fail + 1
                    /\ failures' = failures \cup {seg_i}
                    /\ seg_i' = NextSegmentAfterFailure(seg_i, Len(segs))
                    /\ UNCHANGED sched_pc
    /\ UNCHANGED <<cfgVars, fnVars, audio_buffer, buf_lock, buf_poisoned, recording,
                   stream_alive, file, file_lock, cbVars, last_processed,
                   segment_counter, samples_to_process, segs, ctlVars,
                   dispatched, consumed, skipped>>

\* if let Ok(mut file) = file_clone_transcription.lock()
SchedFileLock ==
    /\ ~Exited
    /\ sched_pc = "flock"
    /\ CanAcquire(file_lock)
    /\ file_lock' = "sched"
    /\ sched_pc' = "fwrite"
    /\ UNCHANGED <<cfgVars, fnVars, audio_buffer, buf_lock, buf_poisoned, recording,
                   stream_alive, file, cbVars, last_processed, segment_counter,
                   samples_to_process, segs, seg_i, ctlVars, histVars>>

\* let _ = file.write_all(transcript_line.as_bytes()); the guard is dropped
SchedWrite ==
    /\ ~Exited
    /\ sched_pc = "fwrite"
    /\ \E written \in BOOLEAN :
        IF written
        THEN /\ file' = Append(file,
                    PeriodicLine(segment_counter, chunk_seconds,
                                 segs[seg_i + 1].t0, segs[seg_i + 1].t1, seg_i))
             /\ UNCHANGED <<n_fail, failures>>
        ELSE /\ n_fail < MaxFail
             /\ n_fail' = n_fail + 1
             /\ failures' = failures \cup {seg_i}
             /\ UNCHANGED file
    /\ file_lock' = "none"
    /\ seg_i' = seg_i + 1
    /\ sched_pc' = "emit"
    /\ UNCHANGED <<cfgVars, fnVars, audio_buffer, buf_lock, buf_poisoned, recording,
                   stream_alive, cbVars, last_processed, segment_counter,
                   samples_to_process, segs, ctlVars, dispatched, consumed,
                   skipped>>

\* after the for loop: segment_counter += 1; last_processed += ...
SchedBook ==
    /\ ~Exited
    /\ sched_pc = "emit"
    /\ seg_i >= Len(segs)
    /\ segment_counter' = segment_counter + 1
    /\ last_processed' = last_processed +
           CursorAdvance(samples_to_process.len, Len16k(samples_to_process.len))
    /\ consumed' = Append(consumed,
           [k |-> segment_counter, from |-> samples_to_process.from,
            len |-> samples_to_process.len])
    /\ sched_pc' = "sleep"
    /\ samples_to_process' = NoSlice
    /\ segs' = <<>>
    /\ seg_i' = 0
    /\ failures' = {}
    /\ UNCHANGED <<cfgVars, fnVars, audio_buffer, buf_lock, buf_poisoned, recording,
                   stream_alive, file, file_lock, cbVars, ctlVars, dispatched,
                   skipped, n_fail>>

\* ------------------------------------------------------------ control path
\* The final processing clones the buffer: remaining_samples = buffer.clone()
DrainFrom(lp) == 0

\* STARTING: the header is written, the stream is built and played, the
\* transcription thread is spawned; a failing write or stream is returned
Start ==
    /\ ctl_pc = "starting"
    /\ \E ok \in BOOLEAN :
        IF ok THEN /\ file' = <<Header>>
                   /\ stream_alive' = TRUE
                   /\ sched_pc' = "sleep"
                   /\ ctl_pc' = "recording"
              ELSE /\ ctl_pc' = "aborted"
                   /\ UNCHANGED <<file, stream_alive, sched_pc>>
    /\ UNCHANGED <<cfgVars, fnVars, audio_buffer, buf_lock, buf_poisoned, recording,
                   file_lock, cbVars, last_processed, segment_counter,
                   samples_to_process, segs, seg_i, remaining_samples, d_segs,
                   d_i, histVars>>

\* io::stdin().read_line(&mut input)? returns, then recording.store(false)
Stop ==
    /\ ctl_pc = "recording"
    /\ \E ok \in BOOLEAN :
        IF ok THEN /\ recording' = FALSE
                   /\ ctl_pc' = "dropstream"
                   /\ UNCHANGED stream_alive
              ELSE /\ ctl_pc' = "aborted"
                   /\ stream_alive' = FALSE
                   /\ UNCHANGED recording
    /\ UNCHANGED <<cfgVars, fnVars, audio_buffer, buf_lock, buf_poisoned, file,
                   file_lock, cbVars, schedVars, remaining_samples, d_segs, d_i,
                   histVars>>

\* drop(stream): the stream is stopped; a callback in progress finishes first
DropStream ==
    /\ ctl_pc = "dropstream"
    /\ cb_pc = "idle"
    /\ stream_alive' = FALSE
    /\ ctl_pc' = "drain_lock"
    /\ UNCHANGED <<cfgVars, fnVars, audio_buffer, buf_lock, buf_poisoned, recording,
                   file, file_lock, cbVars, schedVars, remaining_samples,
                   d_segs, d_i, histVars>>

\* audio_buffer.lock().unwrap()
DrainLock ==
    /\ ctl_pc = "drain_lock"
    /\ CanAcquire(buf_lock)
    /\ IF buf_poisoned
       THEN /\ ctl_pc' = "panicked"
            /\ UNCHANGED buf_lock
       ELSE /\ ctl_pc' = "drain_snap"
            /\ buf_lock' = "ctl"
    /\ UNCHANGED <<cfgVars, fnVars, audio_buffer, buf_poisoned, recording, stream_alive,
                   file, file_lock, cbVars, schedVars, remaining_samples,
                   d_segs, d_i, histVars>>

\* buffer.clone(), the guard is dropped; if !remaining_samples.is_empty()
DrainSnapshot ==
    /\ ctl_pc = "drain_snap"
    /\ remaining_samples' = [from |-> DrainFrom(last_processed),
                             len |-> BufLen - DrainFrom(last_processed)]
    /\ buf_lock' = "none"
    /\ ctl_pc' = IF BufLen - DrainFrom(last_processed) = 0 THEN "join"
                 ELSE "drain_engine"
    /\ UNCHANGED <<cfgVars, fnVars, audio_buffer, buf_poisoned, recording, stream_alive,
                   file, file_lock, cbVars, schedVars, d_segs, d_i, histVars>>

\* resample, ctx_final.create_state()?, state.full()?, full_n_segments()?
DrainEngine ==
    /\ ctl_pc = "drain_engine"
    /\ \E outcome \in {"state_err", "full_err", "nseg_err", "ok"} :
        \/ /\ outcome = "state_err"
           /\ ctl_pc' = "aborted"
           /\ UNCHANGED <<dispatched, d_segs, d_i>>
        \/ /\ outcome \in {"full_err", "nseg_err"}
           /\ dispatched' = Append(dispatched,
                  [by |-> "drain", from |-> remaining_samples.from,
                   len |-> remaining_samples.len,
                   len_16k |-> Len16k(remaining_samples.len)])
           /\ ctl_pc' = "aborted"
           /\ UNCHANGED <<d_segs, d_i>>
        \/ /\ outcome = "ok"
           /\ dispatched' = Append(dispatched,
                  [by |-> "drain", from |-> remaining_samples.from,
                   len |-> remaining_samples.len,
                   len_16k |-> Len16k(remaining_samples.len)])
           /\ d_segs' \in EngineResults(Len16k(remaining_samples.len))
           /\ d_i' = 0
           /\ ctl_pc' = "drain_flock"
    /\ UNCHANGED <<cfgVars, fnVars, audio_buffer, buf_lock, buf_poisoned, recording,
                   stream_alive, file, file_lock, cbVars, schedVars,
                   remaining_samples, consumed, skipped, n_fail, failures>>

\* let mut file = file_clone.lock().unwrap(), held over the whole for loop
DrainFileLock ==
    /\ ctl_pc = "drain_flock"
    /\ CanAcquire(file_lock)
    /\ file_lock' = "ctl"
    /\ ctl_pc' = "drain_write"
    /\ UNCHANGED <<cfgVars, fnVars, audio_buffer, buf_lock, buf_poisoned, recording,
                   stream_alive, file, cbVars, schedVars, remaining_samples,
                   d_segs, d_i, histVars>>

\* the file guard of the final processing lives in the block around the for
\* loop and is dropped at its closing brace, before the join
HolderAfterDrainBlockKept == "ctl"
HolderAfterDrainBlock == "none"

\* one iteration of the for loop: the getters and writeln! all use `?`;
\* after the last iteration the guard is dropped
DrainWrite ==
    /\ ctl_pc = "drain_write"
    /\ IF d_i >= Len(d_segs)
       THEN /\ file_lock' = HolderAfterDrainBlock
            /\ ctl_pc' = "join"
            /\ UNCHANGED <<file, d_i>>
       ELSE \E outcome \in {"ok", "get", "write"} :
            IF outcome = "ok"
            THEN /\ file' = Append(file,
                        DrainLine(d_segs[d_i + 1].t0, d_segs[d_i + 1].t1, d_i))
                 /\ d_i' = d_i + 1
                 /\ UNCHANGED <<file_lock, ctl_pc>>
            ELSE /\ file_lock' = "none"
                 /\ ctl_pc' = "aborted"
                 /\ UNCHANGED <<file, d_i>>
    /\ UNCHANGED <<cfgVars, fnVars, audio_buffer, buf_lock, buf_poisoned,
                   recording, stream_alive, cbVars, schedVars,
                   remaining_samples, d_segs, dispatched, consumed, skipped,
                   n_fail, failures>>

\* join() returns once the transcription thread has left its closure, by
\* the break of the loop or by a panic
JoinReturnsAtOnce(pc) == TRUE
JoinReturns(pc) == pc \in {"exit", "panicked"}

\* transcription_handle.join().unwrap()
Join ==
    /\ ctl_pc = "join"
    /\ JoinReturns(sched_pc)
    /\ ctl_pc' = IF sched_pc = "panicked" THEN "panicked" ELSE "footer_lock"
    /\ UNCHANGED <<cfgVars, fnVars, audio_buffer, buf_lock, buf_poisoned, recording,
                   stream_alive, file, file_lock, cbVars, schedVars,
                   remaining_samples, d_segs, d_i, histVars>>

\* let mut file = file_clone.lock().unwrap()
FooterLock ==
    /\ ctl_pc = "footer_lock"
    /\ CanAcquire(file_lock)
    /\ file_lock' = "ctl"
    /\ ctl_pc' = "footer"
    /\ UNCHANGED <<cfgVars, fnVars, audio_buffer, buf_lock, buf_poisoned, recording,
                   stream_alive, file, cbVars, schedVars, remaining_samples,
                   d_segs, d_i, histVars>>

\* writeln!(file, "\nEnded: {}")?, the guard is dropped, Ok(())
WriteFooter ==
    /\ ctl_pc = "footer"
    /\ \E ok \in BOOLEAN :
        IF ok THEN /\ file' = Append(file, Footer)
                   /\ ctl_pc' = "done"
              ELSE /\ ctl_pc' = "aborted"
                   /\ UNCHANGED file
    /\ file_lock' = "none"
    /\ UNCHANGED <<cfgVars, fnVars, audio_buffer, buf_lock, buf_poisoned, recording,
                   stream_alive, cbVars, schedVars, remaining_samples, d_segs,
                   d_i, histVars>>

\* ------------------------------------------------------------ specification
Next ==
    \/ CbInvoke \/ CbLock \/ CbAppend
    \/ SchedTick \/ SchedLock \/ SchedSnapshot \/ SchedEngine
    \/ SchedSegment \/ SchedFileLock \/ SchedWrite \/ SchedBook
    \/ Start \/ Stop \/ DropStream \/ DrainLock \/ DrainSnapshot
    \/ DrainEngine \/ DrainFileLock \/ DrainWrite \/ Join
    \/ FooterLock \/ WriteFooter

Spec == Init /\ [][Next]_vars

TypeOK ==
    /\ sample_rate \in SampleRates
    /\ chunk_seconds \in ChunkSecondsSet
    /\ buf_lock \in {"none", "cb", "sched", "ctl"}
    /\ file_lock \in {"none", "sched", "ctl"}
    /\ BufLen <= MaxBuf
    /\ failures \subseteq 0..(MaxSegs - 1)

\* ------------------------------------------- the timestamp merge on its own
\* The transcription thread holds one retrieved segment of chunk
\* segment_counter and is about to write its line.
MergeSegments == { sg \in [t0 : MergeTimes, t1 : MergeTimes] : sg.t0 <= sg.t1 }

MergeInit ==
    /\ sample_rate = WhisperRate
    /\ chunk_seconds \in MergeChunkSeconds
    /\ audio_buffer = <<>>
    /\ buf_lock = "none"
    /\ buf_poisoned = FALSE
    /\ recording = TRUE
    /\ stream_alive = TRUE
    /\ file = <<Header>>
    /\ file_lock = "sched"
    /\ cb_pc = "idle"
    /\ cb_block = 0
    /\ sched_pc = "fwrite"
    /\ last_processed = 0
    /\ segment_counter \in 0..MaxK
    /\ samples_to_process = NoSlice
    /\ \E sg \in MergeSegments : segs = <<sg>>
    /\ seg_i = 0
    /\ ctl_pc = "recording"
    /\ remaining_samples = NoSlice
    /\ d_segs = <<>>
    /\ d_i = 0
    /\ dispatched = <<>>
    /\ consumed = <<>>
    /\ skipped = FALSE
    /\ n_fail = 0
    /\ failures = {}
    /\ fn_in = <<>>
    /\ fn_out = <<>>

MergeNext == SchedWrite

SpecMerge == MergeInit /\ [][MergeNext]_vars

\* ------------------------------------------------------- f64 arithmetic
\* A natural number below 2^72 as four limbs of 18 bits, least significant
\* first.
Limb == 2^18

BigZero == <<0, 0, 0, 0>>

\* n below 2^31
BigOf(n) == <<n % Limb, n \div Limb, 0, 0>>

BigGE(x, y) ==
    IF x[4] # y[4] THEN x[4] > y[4]
    ELSE IF x[3] # y[3] THEN x[3] > y[3]
    ELSE IF x[2] # y[2] THEN x[2] > y[2]
    ELSE x[1] >= y[1]

\* x - y for x >= y
BigSub(x, y) ==
    LET d1 == x[1] - y[1]
        b1 == IF d1 < 0 THEN 1 ELSE 0
        d2 == x[2] - y[2] - b1
        b2 == IF d2 < 0 THEN 1 ELSE 0
        d3 == x[3] - y[3] - b2
        b3 == IF d3 < 0 THEN 1 ELSE 0
    IN  <<d1 + (b1 * Limb), d2 + (b2 * Limb), d3 + (b3 * Limb),
          x[4] - y[4] - b3>>

\* x * n + k for n and k below 2^12
BigMulAdd(x, n, k) ==
    LET p1 == (x[1] * n) + k
        p2 == (x[2] * n) + (p1 \div Limb)
        p3 == (x[3] * n) + (p2 \div Limb)
        p4 == (x[4] * n) + (p3 \div Limb)
    IN  <<p1 % Limb, p2 % Limb, p3 % Limb, p4>>

BigHalf(x) ==
    <<(x[1] \div 2) + ((x[2] % 2) * (Limb \div 2)),
      (x[2] \div 2) + ((x[3] % 2) * (Limb \div 2)),
      (x[3] \div 2) + ((x[4] % 2) * (Limb \div 2)),
      x[4] \div 2>>

BigOdd(x) == x[1] % 2 = 1

\* the value of x when it is below 2^31
BigToInt(x) == x[1] + (x[2] * Limb)

\* An f64 that is zero or a positive normal number: m * 2^e with
\* 2^52 <= m < 2^53, or m = 0.
F64Digits == 53

F64Top == <<0, 0, 2^(F64Digits - 36), 0>>
F64Low == <<0, 0, 2^(F64Digits - 37), 0>>

F64Zero == [m |-> BigZero, e |-> 0]

\* Halves z.m until it has F64Digits bits; guard is the last bit shifted out,
\* sticky tells whether a bit shifted out before it was set.
RECURSIVE F64Shift(_)
F64Shift(z) ==
    IF BigGE(z.m, F64Top)
    THEN F64Shift([m |-> BigHalf(z.m), e |-> z.e + 1, guard |-> z.m[1] % 2,
                   sticky |-> z.sticky \/ z.guard = 1])
    ELSE z

\* m * 2^e (and something below one unit of m when sticky), rounded to the
\* nearest f64, ties to even; m >= 2^52
F64Round(m, e, sticky) ==
    LET z == F64Shift([m |-> m, e |-> e, guard |-> 0, sticky |-> sticky])
        up == z.guard = 1 /\ (z.sticky \/ BigOdd(z.m))
        r == IF up THEN BigMulAdd(z.m, 1, 1) ELSE z.m
    IN  IF BigGE(r, F64Top) THEN [m |-> BigHalf(r), e |-> z.e + 1]
        ELSE [m |-> r, e |-> z.e]

RECURSIVE F64Scale(_)
F64Scale(x) ==
    IF BigGE(x.m, F64Low) THEN x
    ELSE F64Scale([m |-> BigMulAdd(x.m, 2, 0), e |-> x.e - 1])

\* `n as f64` for an integer below 2^31: exact
F64FromInt(n) ==
    IF n = 0 THEN F64Zero ELSE F64Scale([m |-> BigOf(n), e |-> 0])

\* k more bits of the quotient z.q, z.r being twice the remainder so far and
\* below 2 * d
RECURSIVE F64DivBits(_, _, _)
F64DivBits(z, d, k) ==
    IF k = 0 THEN z
    ELSE IF BigGE(z.r, d)
         THEN F64DivBits([q |-> BigMulAdd(z.q, 2, 1),
                          r |-> BigMulAdd(BigSub(z.r, d), 2, 0)], d, k - 1)
         ELSE F64DivBits([q |-> BigMulAdd(z.q, 2, 0),
                          r |-> BigMulAdd(z.r, 2, 0)], d, k - 1)

\* x / y, correctly rounded; y is not zero
F64Div(x, y) ==
    IF x.m = BigZero THEN F64Zero
    ELSE LET t == IF BigGE(x.m, y.m) THEN F64Digits + 1 ELSE F64Digits + 2
             z == F64DivBits([q |-> BigZero, r |-> x.m], y.m, t)
         IN  F64Round(z.q, (x.e - y.e) - (t - 1), z.r # BigZero)

\* `n as f64 * y` for n below 2^12: the conversion is exact, so the product
\* is n * y correctly rounded
F64MulInt(n, y) ==
    IF n = 0 \/ y.m = BigZero THEN F64Zero
    ELSE F64Round(BigMulAdd(y.m, n, 0), y.e, FALSE)

\* z.m shifted right by k bits, and whether only zero bits were shifted out
RECURSIVE F64Floor(_, _)
F64Floor(z, k) ==
    IF k = 0 \/ z.m = BigZero THEN [n |-> BigToInt(z.m), whole |-> z.whole]
    ELSE F64Floor([m |-> BigHalf(z.m), whole |-> z.whole /\ ~BigOdd(z.m)],
                  k - 1)

\* `x as usize` for x below 2^31, with whether x is a whole number
\* (x - (x as usize) as f64 = 0.0)
F64Trunc(x) == F64Floor([m |-> x.m, whole |-> TRUE], 0 - x.e)

\* ------------------------------------------------------ resample on its own
MaxLen == 49               \* longest sample sequence given to resample

ResampleFromRates == {8000, 16000, 48000, 49000, 92800}
ResampleToRates == {WhisperRate}

\* mutant: the vector returned for equal rates is allocated but not filled
ResampleSameUnfilled(samples) == <<>>

\* return samples.to_vec()
ResampleSame(samples) == samples

\* ratio and new_len
ResampleRatio(from_rate, to_rate) ==
    F64Div(F64FromInt(to_rate), F64FromInt(from_rate))

ResampleNewLen(len, from_rate, to_rate) ==
    F64Trunc(F64MulInt(len, ResampleRatio(from_rate, to_rate))).n

\* src_idx, and whether frac is zero, for every i of `for i in 0..new_len`
ResampleSteps(len, from_rate, to_rate) ==
    LET ratio == ResampleRatio(from_rate, to_rate)
        new_len == ResampleNewLen(len, from_rate, to_rate)
    IN  [j \in 1..new_len |->
            LET src_pos == F64Trunc(F64Div(F64FromInt(j - 1), ratio))
            IN  [i |-> j - 1, src_idx |-> src_pos.n,
                 frac_zero |-> src_pos.whole]]

\* mutant: the tail branch tests src_idx + 1 again
ResamplePushesInterpolatedOnly(st, len) == st.src_idx + 1 < len

\* a value is pushed for i when one of the two branches is taken
ResamplePushes(st, len) == st.src_idx + 1 < len \/ st.src_idx < len

\* The value pushed for one i.  An interpolated value is the pair of the
\* samples it lies between; with frac = 0.0 the interpolation
\* a * (1.0 - 0.0) + b * 0.0 is a itself.
ResampleValue(samples, st) ==
    IF st.src_idx + 1 < Len(samples) /\ ~st.frac_zero
    THEN <<samples[st.src_idx + 1], samples[st.src_idx + 2]>>
    ELSE samples[st.src_idx + 1]

ResampleLoop(samples, steps) ==
    LET Pushed(st) == ResamplePushes(st, Len(samples))
        kept == SelectSeq(steps, Pushed)
    IN  [j \in 1..Len(kept) |-> ResampleValue(samples, kept[j])]

Resample(samples, from_rate, to_rate) ==
    IF from_rate = to_rate THEN ResampleSame(samples)
    ELSE ResampleLoop(samples,
                      ResampleSteps(Len(samples), from_rate, to_rate))

ResampleInit ==
    /\ fn_in \in { [samples |-> [j \in 1..n |-> j], from_rate |-> f,
                    to_rate |-> t] :
                   n \in 0..MaxLen, f \in ResampleFromRates,
                   t \in ResampleToRates }
    /\ fn_out = <<>>
    /\ ctl_pc = "resample_call"
    /\ sample_rate = WhisperRate
    /\ chunk_seconds = 1
    /\ audio_buffer = <<>>
    /\ buf_lock = "none"
    /\ buf_poisoned = FALSE
    /\ recording = TRUE
    /\ stream_alive = FALSE
    /\ file = <<>>
    /\ file_lock = "none"
    /\ cb_pc = "idle"
    /\ cb_block = 0
    /\ sched_pc = "unspawned"
    /\ last_processed = 0
    /\ segment_counter = 0
    /\ samples_to_process = NoSlice
    /\ segs = <<>>
    /\ seg_i = 0
    /\ remaining_samples = NoSlice
    /\ d_segs = <<>>
    /\ d_i = 0
    /\ dispatched = <<>>
    /\ consumed = <<>>
    /\ skipped = FALSE
    /\ n_fail = 0
    /\ failures = {}

\* one call of resample; the steps of its loop are kept beside its result
ResampleCall ==
    /\ ctl_pc = "resample_call"
    /\ ctl_pc' = "resample_return"
    /\ fn_out' =
          [out |-> Resample(fn_in.samples, fn_in.from_rate, fn_in.to_rate),
           steps |-> IF fn_in.from_rate = fn_in.to_rate THEN <<>>
                     ELSE ResampleSteps(Len(fn_in.samples), fn_in.from_rate,
                                        fn_in.to_rate)]
    /\ UNCHANGED <<cfgVars, fn_in, audio_buffer, buf_lock, buf_poisoned,
                   recording, stream_alive, file, file_lock, cbVars,
                   schedVars, remaining_samples, d_segs, d_i, histVars>>

ResampleNext == ResampleCall

SpecResample == ResampleInit /\ [][ResampleNext]_vars

\* ------------------------------------------------------- f32 arithmetic
\* An f32 that is zero or a normal number: m * 2^e with 2^23 <= |m| < 2^24,
\* or m = 0.
F32Digits == 24

F32Top == 2^F32Digits
F32Low == 2^(F32Digits - 1)

F32Zero == [m |-> 0, e |-> 0]

Abs(n) == IF n < 0 THEN 0 - n ELSE n

\* Halves z.a until it has F32Digits bits; guard is the last bit shifted out,
\* sticky tells whether a bit shifted out before it was set.
RECURSIVE F32Shift(_)
F32Shift(z) ==
    IF z.a >= F32Top
    THEN F32Shift([a |-> z.a \div 2, e |-> z.e + 1, guard |-> z.a % 2,
                   sticky |-> z.sticky \/ z.guard = 1])
    ELSE z

RECURSIVE F32Scale(_)
F32Scale(z) ==
    IF z.a >= F32Low THEN z ELSE F32Scale([a |-> 2 * z.a, e |-> z.e - 1])

\* n * 2^e (and something below one unit of n when sticky), rounded to the
\* nearest f32, ties to even; |n| below 2^31, and at least 2^24 when sticky
F32Round(n, e, sticky) ==
    IF n = 0 THEN F32Zero
    ELSE LET z == F32Shift([a |-> Abs(n), e |-> e, guard |-> 0,
                            sticky |-> sticky])
             up == z.guard = 1 /\ (z.sticky \/ z.a % 2 = 1)
             r == IF up THEN z.a + 1 ELSE z.a
             y == IF r >= F32Top THEN [a |-> r \div 2, e |-> z.e + 1]
                  ELSE F32Scale([a |-> r, e |-> z.e])
         IN  [m |-> IF n < 0 THEN 0 - y.a ELSE y.a, e |-> y.e]

\* hi + lo, correctly rounded, for hi.e >= lo.e and neither zero.  Up to six
\* bits apart the sum is formed exactly; further apart lo is cut to the bits
\* above hi.e - 6 and what is cut off is the sticky part.
F32AddOrdered(hi, lo) ==
    LET gap == hi.e - lo.e
    IN  IF gap <= 6
        THEN F32Round((hi.m * 2^gap) + lo.m, lo.e, FALSE)
        ELSE LET cut == 2^(IF gap - 6 < 30 THEN gap - 6 ELSE 30)
                 n == (hi.m * 2^6) + (lo.m \div cut)
                 sticky == lo.m % cut # 0
             IN  F32Round(IF n < 0 /\ sticky THEN n + 1 ELSE n, hi.e - 6,
                          sticky)

\* x + y, correctly rounded
F32Add(x, y) ==
    IF x.m = 0 THEN y
    ELSE IF y.m = 0 THEN x
    ELSE IF x.e >= y.e THEN F32AddOrdered(x, y)
    ELSE F32AddOrdered(y, x)

\* `x / n as f32` for 1 <= n <= 32: the conversion is exact, so the quotient
\* is x / n correctly rounded
F32DivInt(x, n) ==
    LET a == Abs(x.m) * 2^6
        q == a \div n
    IN  F32Round(IF x.m < 0 THEN 0 - q ELSE q, x.e - 6, a % n # 0)

\* --------------------------------------------------- the downmix on its own
MaxFrames == 2             \* most frames in a block given to the callback

ChannelCounts == {1, 2, 3}

\* amplitudes: 0.0, 0.6666669, -0.50000006, 0.25000009
F32Values ==
    {F32Zero, [m |-> 11184814, e |-> -24], [m |-> -8388609, e |-> -24],
     [m |-> 8388611, e |-> -25]}

\* let mut sum = 0.0; for &sample in chunk { sum += sample; }
RECURSIVE F32Sum(_, _)
F32Sum(sum, chunk) ==
    IF chunk = <<>> THEN sum
    ELSE F32Sum(F32Add(sum, Head(chunk)), Tail(chunk))

\* mutant: the sum is pushed without the division
MonoSampleIsSum(chunk, channels) == F32Sum(F32Zero, chunk)

\* let mono_sample = sum / channels as f32
MonoSample(chunk, channels) == F32DivInt(F32Sum(F32Zero, chunk), channels)

\* data.chunks(channels): the last one is shorter when the length of data is
\* no multiple of channels
Chunks(data, channels) ==
    [j \in 1..((Len(data) + channels - 1) \div channels) |->
        SubSeq(data, ((j - 1) * channels) + 1,
               IF j * channels < Len(data) THEN j * channels ELSE Len(data))]

\* the samples the callback pushes for one block
Downmix(data, channels) ==
    LET chunks == Chunks(data, channels)
    IN  [j \in 1..Len(chunks) |-> MonoSample(chunks[j], channels)]

DownmixInit ==
    /\ \E c \in ChannelCounts : \E f \in 1..MaxFrames :
          \E d \in [1..(c * f) -> F32Values] :
              fn_in = [data |-> d, channels |-> c]
    /\ fn_out = <<>>
    /\ cb_pc = "append"
    /\ buf_lock = "cb"
    /\ recording = TRUE
    /\ stream_alive = TRUE
    /\ ctl_pc = "recording"
    /\ sched_pc = "sleep"
    /\ sample_rate = WhisperRate
    /\ chunk_seconds = 1
    /\ audio_buffer = <<>>
    /\ buf_poisoned = FALSE
    /\ file = <<Header>>
    /\ file_lock = "none"
    /\ cb_block = 0
    /\ last_processed = 0
    /\ segment_counter = 0
    /\ samples_to_process = NoSlice
    /\ segs = <<>>
    /\ seg_i = 0
    /\ remaining_samples = NoSlice
    /\ d_segs = <<>>
    /\ d_i = 0
    /\ dispatched = <<>>
    /\ consumed = <<>>
    /\ skipped = FALSE
    /\ n_fail = 0
    /\ failures = {}

\* the body of the callback once it holds the guard: one push per chunk, then
\* the guard is dropped
DownmixCall ==
    /\ cb_pc = "append"
    /\ fn_out = <<>>
    /\ fn_out' = fn_out \o Downmix(fn_in.data, fn_in.channels)
    /\ buf_lock' = "none"
    /\ cb_pc' = "idle"
    /\ UNCHANGED <<cfgVars, fn_in, audio_buffer, buf_poisoned, recording,
                   stream_alive, file, file_lock, cb_block, schedVars,
                   ctlVars, histVars>>

DownmixNext == DownmixCall

SpecDownmix == DownmixInit /\ [][DownmixNext]_vars

\* ---------------------------------------------------------------- claims
RECURSIVE TotalLen(_)
TotalLen(sl) == IF sl = <<>> THEN 0 ELSE Head(sl).len + TotalLen(Tail(sl))

Disjoint(a, b) == a.from + a.len <= b.from \/ b.from + b.len <= a.from

PairwiseDisjoint(sl) ==
    \A i \in 1..Len(sl) : \A j \in 1..Len(sl) :
        i < j => Disjoint(sl[i], sl[j])

StopReceived == ~recording

PeriodicLines == { i \in 1..Len(file) : file[i].kind = "periodic" }
DrainLines == { i \in 1..Len(file) : file[i].kind = "drain" }

\* C1: in a session that was stopped and has ended, every sample pushed to the
\* buffer was given to the engine exactly once over the successful periodic
\* chunks and the final processing: the slices of the booked chunks and of the
\* final processing are pairwise disjoint and together cover the buffer.
IsDrain(d) == d.by = "drain"

C1_Slices == consumed \o SelectSeq(dispatched, IsDrain)

C1_EverySampleDispatchedOnce ==
    ctl_pc = "done" =>
        /\ PairwiseDisjoint(C1_Slices)
        /\ TotalLen(C1_Slices) = BufLen

\* C2: in the output file no line of a periodic chunk comes after a line of
\* the final processing.
C2_DrainLinesAfterPeriodicLines ==
    \A i \in DrainLines : \A j \in PeriodicLines : j < i

\* C3: the cursor never passes the end of the buffer, so that
\* buffer.len() - last_processed never underflows.
C3_CursorWithinBuffer == last_processed <= BufLen

\* C4: the cursor is the total raw length of the chunks booked so far: every
\* booked chunk advanced it by the number of samples copied out of the buffer.
C4_CursorAdvancesByRawLength == last_processed = TotalLen(consumed)

\* C5: when the engine fails for a periodic chunk, the thread writes no line
\* but increments the chunk index and advances the cursor by the chunk length.
C5_FailedChunkIsBooked ==
    [][(sched_pc = "engine" /\ sched_pc' = "sleep") =>
        /\ segment_counter' = segment_counter + 1
        /\ last_processed' = last_processed + samples_to_process.len
        /\ file' = file]_vars

\* C6: while the buffer has never held chunk_seconds * 16000 samples, no tick
\* has advanced the cursor, incremented the chunk index, written a line or
\* dispatched anything, and once the final processing has called the engine
\* it has dispatched the whole buffer, from sample 0 to the end, once.
DrainDispatched ==
    ctl_pc \in {"drain_flock", "drain_write", "join", "footer_lock", "footer",
                "done"}

C6_ShortSessionDrainsEverything ==
    BufLen < chunk_seconds * WhisperRate =>
        /\ last_processed = 0
        /\ segment_counter = 0
        /\ PeriodicLines = {}
        /\ \A i \in 1..Len(dispatched) : dispatched[i].by = "drain"
        /\ DrainDispatched =>
              dispatched = IF BufLen = 0 THEN <<>>
                           ELSE <<[by |-> "drain", from |-> 0, len |-> BufLen,
                                   len_16k |-> Len16k(BufLen)]>>

C6_Witness ==
    /\ ctl_pc = "done"
    /\ skipped
    /\ 0 < BufLen
    /\ BufLen < chunk_seconds * WhisperRate
    /\ Len(dispatched) = 1
    /\ DrainLines # {}

\* C7: a tick that finds fewer than chunk_seconds * 16000 unprocessed samples
\* takes no chunk and leaves the cursor, the chunk index, the buffer, the
\* output file and the dispatch history unchanged.
C7_ShortTickChangesNothing ==
    [][(/\ sched_pc = "snap"
        /\ sched_pc' # "snap"
        /\ BufLen - last_processed < chunk_seconds * WhisperRate) =>
        /\ sched_pc' \in {"sleep", "panicked"}
        /\ UNCHANGED <<last_processed, segment_counter, audio_buffer, file,
                       dispatched, samples_to_process>>]_vars

C7_Witness ==
    /\ skipped
    /\ sched_pc = "sleep"
    /\ segment_counter > 0
    /\ 0 < BufLen - last_processed
    /\ BufLen - last_processed < chunk_seconds * WhisperRate

\* C8: when no tick was skipped, the global start of every line of a chunk is
\* at most the global start of every line of a later chunk.
C8_StartsOrderedAcrossChunks ==
    ~skipped =>
        \A i \in PeriodicLines : \A j \in PeriodicLines :
            file[i].k < file[j].k => file[i].gs <= file[j].gs

\* C9: the line written for a segment {t0, t1} of chunk k carries
\* k * chunk_seconds + floor(t0 / 100) and k * chunk_seconds + floor(t1 / 100)
\* seconds, each rendered as two digits of minutes (total div 60) and two
\* digits of seconds (total mod 60).
C9_Rendered(total) ==
    <<<<(total \div 60) \div 10, (total \div 60) % 10>>,
      <<(total % 60) \div 10, (total % 60) % 10>>>>

C9_LineWritten ==
    /\ sched_pc = "emit"
    /\ seg_i = 1
    /\ Len(file) = 2
    /\ file[2].kind = "periodic"

C9_GlobalTimestamps ==
    C9_LineWritten =>
        LET ln == file[2]
            k == segment_counter
            cs == chunk_seconds
            sg == segs[1]
        IN  /\ ln.gs = (k * cs) + (sg.t0 \div 100)
            /\ ln.ge = (k * cs) + (sg.t1 \div 100)
            /\ ln.start = C9_Rendered((k * cs) + (sg.t0 \div 100))
            /\ ln.end = C9_Rendered((k * cs) + (sg.t1 \div 100))
            /\ (k = 0 /\ cs = 5 /\ sg = [t0 |-> 0, t1 |-> 250]) =>
                  /\ ln.start = <<<<0, 0>>, <<0, 0>>>>
                  /\ ln.end = <<<<0, 0>>, <<0, 2>>>>
            /\ (k = 2 /\ cs = 5 /\ sg = [t0 |-> 100, t1 |-> 300]) =>
                  /\ ln.start = <<<<0, 0>>, <<1, 1>>>>
                  /\ ln.end = <<<<0, 0>>, <<1, 3>>>>

C9_Witness ==
    /\ C9_LineWritten
    /\ segment_counter = 2
    /\ chunk_seconds = 5
    /\ segs[1] = [t0 |-> 100, t1 |-> 300]
    /\ file[2].start = <<<<0, 0>>, <<1, 1>>>>
    /\ file[2].end = <<<<0, 0>>, <<1, 3>>>>

\* C10: once the stop signal was received, the session ends only in DONE,
\* with the transcription thread joined and the footer written.
C10_StoppedSessionEndsDone ==
    (StopReceived /\ Exited) =>
        /\ ctl_pc = "done"
        /\ sched_pc = "exit"
        /\ file[Len(file)] = Footer

\* C11: the step in which the write of a transcript line fails (the thread
\* holds the file, leaves the write and the file has not grown) ends the
\* session with an error, in the periodic thread and in the final processing.
C11_WriteFailureEndsSession ==
    [][/\ (sched_pc = "fwrite" /\ sched_pc' # "fwrite" /\ file' = file) =>
              ctl_pc' = "aborted"
       /\ (ctl_pc = "drain_write" /\ d_i < Len(d_segs) /\ file' = file
              /\ ctl_pc' # "drain_write") =>
              ctl_pc' = "aborted"
      ]_vars

\* C12: resample called with equal rates returns its input: same length, same
\* element at every index.
C12_EqualRatesReturnInput ==
    (ctl_pc = "resample_return" /\ fn_in.from_rate = fn_in.to_rate) =>
        /\ Len(fn_out.out) = Len(fn_in.samples)
        /\ \A j \in 1..Len(fn_in.samples) : fn_out.out[j] = fn_in.samples[j]

C12_Witness ==
    /\ ctl_pc = "resample_return"
    /\ fn_in.from_rate = fn_in.to_rate
    /\ Len(fn_in.samples) >= 3
    /\ fn_out.out = fn_in.samples

\* C13, as stated: for different rates the result has exactly
\* floor(len * to_rate / from_rate) elements, the i-th of them taken at source
\* index floor(i * from_rate / to_rate), which is in bounds; nothing is dropped
\* and an empty input gives an empty result.
C13_Returned == ctl_pc = "resample_return" /\ fn_in.from_rate # fn_in.to_rate

C13_ExactLen == (Len(fn_in.samples) * fn_in.to_rate) \div fn_in.from_rate

C13_ExactIdx(i) == (i * fn_in.from_rate) \div fn_in.to_rate

C13_LengthIsExactFloor ==
    C13_Returned =>
        /\ Len(fn_out.out) = C13_ExactLen
        /\ Len(fn_out.steps) = C13_ExactLen
        /\ \A j \in 1..Len(fn_out.steps) :
              /\ fn_out.steps[j].src_idx = C13_ExactIdx(j - 1)
              /\ fn_out.steps[j].src_idx < Len(fn_in.samples)
        /\ Len(fn_in.samples) = 0 => fn_out.out = <<>>

\* C13, amended: the length is the floor of the f64 product len * ratio, which
\* is floor(len * to_rate / from_rate) or, only when len * to_rate / from_rate
\* is a whole number, one less; the source index of i is
\* floor(i * from_rate / to_rate) or, only when that quotient is a whole
\* number, one less; every source index is in bounds, so one value is pushed
\* for every i, and an empty input gives an empty result.
C13_LengthIsFloorOfF64Product ==
    C13_Returned =>
        /\ Len(fn_out.steps) \in {C13_ExactLen, C13_ExactLen - 1}
        /\ Len(fn_out.steps) # C13_ExactLen =>
              (Len(fn_in.samples) * fn_in.to_rate) % fn_in.from_rate = 0
        /\ Len(fn_out.out) = Len(fn_out.steps)
        /\ \A j \in 1..Len(fn_out.steps) :
              LET st == fn_out.steps[j]
              IN  /\ st.i = j - 1
                  /\ st.src_idx \in {C13_ExactIdx(st.i), C13_ExactIdx(st.i) - 1}
                  /\ st.src_idx # C13_ExactIdx(st.i) =>
                        (st.i * fn_in.from_rate) % fn_in.to_rate = 0
                  /\ st.src_idx >= 0
                  /\ st.src_idx < Len(fn_in.samples)
        /\ Len(fn_in.samples) = 0 => fn_out.out = <<>>

C13_Witness ==
    /\ C13_Returned
    /\ Len(fn_out.out) > 0
    /\ Len(fn_out.out) = C13_ExactLen - 1

\* C14, as stated: the callback pushes one sample per frame, equal to the mean
\* of the frame's channel values (the f32 nearest to it); with one channel the
\* pushed samples are the block itself, and a frame of identical values gives
\* that value.
C14_Returned == cb_pc = "idle" /\ Len(fn_out) > 0

C14_Frame(j) ==
    SubSeq(fn_in.data, ((j - 1) * fn_in.channels) + 1, j * fn_in.channels)

\* the least exponent among the values of a frame that are not zero
C14_Exp(frame) ==
    LET es == { frame[k].e : k \in { i \in 1..Len(frame) : frame[i].m # 0 } }
    IN  IF es = {} THEN 0 ELSE CHOOSE e \in es : \A d \in es : e <= d

\* x in units of 2^e, for x.e >= e or x zero
C14_Units(x, e) == IF x.m = 0 THEN 0 ELSE x.m * 2^(x.e - e)

RECURSIVE C14_Sum(_, _)
C14_Sum(frame, e) ==
    IF frame = <<>> THEN 0
    ELSE C14_Units(Head(frame), e) + C14_Sum(Tail(frame), e)

\* x in units of 2^e, rounded down, and whether nothing was rounded off
C14_Floor(x, e) ==
    IF x.m = 0 \/ x.e >= e THEN [n |-> C14_Units(x, e), exact |-> TRUE]
    ELSE LET cut == 2^(IF e - x.e < 30 THEN e - x.e ELSE 30)
         IN  [n |-> x.m \div cut, exact |-> x.m % cut = 0]

\* out is no further from sum / channels than half a unit of its last place
C14_IsNearestMean(out, frame) ==
    LET e == C14_Exp(frame)
        n == Len(frame)
        sum == C14_Sum(frame, e)
    IN  IF out.m = 0 THEN sum = 0
        ELSE IF out.e >= e
        THEN 2 * Abs((C14_Units(out, e) * n) - sum) <= n * 2^(out.e - e)
        ELSE /\ e - out.e <= 30
             /\ 2 * Abs((out.m * n) - (sum * 2^(e - out.e))) <= n

C14_Identical(frame, v) == \A k \in 1..Len(frame) : frame[k] = v

C14_OneMeanPerFrame ==
    C14_Returned =>
        /\ Len(fn_out) * fn_in.channels = Len(fn_in.data)
        /\ \A j \in 1..Len(fn_out) :
              C14_IsNearestMean(fn_out[j], C14_Frame(j))
        /\ fn_in.channels = 1 => fn_out = fn_in.data
        /\ \A j \in 1..Len(fn_out) : \A v \in F32Values :
              C14_Identical(C14_Frame(j), v) => fn_out[j] = v

\* C14, amended: the callback pushes one sample per frame, the f32 result of
\* adding the frame's values in order and dividing by channels.  With one or
\* two channels it is the f32 nearest to the mean; with more it differs from
\* the mean by at most channels * 2^-23 times the largest magnitude in the
\* frame.  With one channel the pushed samples are the block itself, and a
\* frame of one or two identical values gives that value.
C14_WithinRounding(out, frame) ==
    LET e == C14_Exp(frame)
        n == Len(frame)
        f == C14_Floor(out, e)
        sum == C14_Sum(frame, e)
        largest == CHOOSE a \in { Abs(C14_Units(frame[k], e)) : k \in 1..n } :
                       \A k \in 1..n : Abs(C14_Units(frame[k], e)) <= a
        bound == (n * n * largest) \div F32Low
        lo == f.n * n
        hi == IF f.exact THEN lo ELSE lo + n
    IN  /\ Abs(lo - sum) <= bound
        /\ Abs(hi - sum) <= bound

C14_OneRoundedMeanPerFrame ==
    C14_Returned =>
        /\ Len(fn_out) * fn_in.channels = Len(fn_in.data)
        /\ \A j \in 1..Len(fn_out) :
              /\ C14_WithinRounding(fn_out[j], C14_Frame(j))
              /\ fn_in.channels <= 2 =>
                    C14_IsNearestMean(fn_out[j], C14_Frame(j))
        /\ fn_in.channels = 1 => fn_out = fn_in.data
        /\ \A j \in 1..Len(fn_out) : \A v \in F32Values :
              (fn_in.channels <= 2 /\ C14_Identical(C14_Frame(j), v)) =>
                  fn_out[j] = v

C14_Witness ==
    /\ C14_Returned
    /\ fn_in.channels = 3
    /\ \E v \in F32Values :
          /\ C14_Identical(C14_Frame(1), v)
          /\ fn_out[1] # v
          /\ C14_WithinRounding(fn_out[1], C14_Frame(1))

\* C15: when the session has ended, every line of the final processing carries
\* the offset of the chunk index the periodic thread reached:
\* segment_counter * chunk_seconds + t / 100 for its start and its end.
C15_DrainLinesContinueNumbering ==
    ctl_pc = "done" =>
        \A j \in DrainLines :
            LET sg == d_segs[file[j].i + 1]
            IN  /\ file[j].gs = (segment_counter * chunk_seconds)
                                   + (sg.t0 \div 100)
                /\ file[j].ge = (segment_counter * chunk_seconds)
                                   + (sg.t1 \div 100)

\* C16: a thread that is inside state.full holds neither the buffer mutex nor
\* the file mutex, in the periodic thread and in the final processing.
C16_NoLockAcrossEngineCall ==
    /\ sched_pc = "engine" => (buf_lock # "sched" /\ file_lock # "sched")
    /\ ctl_pc = "drain_engine" => (buf_lock # "ctl" /\ file_lock # "ctl")

C16_Witness ==
    /\ sched_pc = "engine"
    /\ cb_pc = "append"
    /\ buf_lock = "cb"

\* C17: after recording.store(false) the periodic thread takes no snapshot
\* that becomes a chunk handed to the engine.
C17_NoChunkStartsAfterClear ==
    [][~recording => ~(sched_pc = "snap" /\ sched_pc' = "engine")]_vars

\* C18: at most one of the callback, the periodic thread and the control path
\* is inside a critical section of the buffer, and it is the holder of the
\* buffer mutex; at most one of the periodic thread and the control path is
\* writing the file, and it is the holder of the file mutex.
C18_InBuffer ==
    { t \in {"cb", "sched", "ctl"} :
        \/ t = "cb" /\ cb_pc = "append"
        \/ t = "sched" /\ sched_pc = "snap"
        \/ t = "ctl" /\ ctl_pc = "drain_snap" }

C18_InFile ==
    { t \in {"sched", "ctl"} :
        \/ t = "sched" /\ sched_pc = "fwrite"
        \/ t = "ctl" /\ ctl_pc \in {"drain_write", "footer"} }

C18_MutualExclusion ==
    /\ Cardinality(C18_InBuffer) <= 1
    /\ \A t \in C18_InBuffer : buf_lock = t
    /\ Cardinality(C18_InFile) <= 1
    /\ \A t \in C18_InFile : file_lock = t

C18_Witness ==
    /\ cb_pc = "lock"
    /\ sched_pc = "snap"
    /\ buf_lock = "sched"

\* C19: a callback invoked while the flag is cleared returns without touching
\* the buffer; the buffer only changes by a block pushed at its end by the
\* callback; once the stream is dropped the buffer does not change, and what
\* the final processing has cloned is the whole buffer.
C19_FinalPcs ==
    {"drain_lock", "drain_snap", "drain_engine", "drain_flock", "drain_write",
     "join", "footer_lock", "footer", "done", "aborted", "panicked"}

C19_Cloned ==
    ctl_pc \in {"drain_engine", "drain_flock", "drain_write", "join",
                "footer_lock", "footer", "done"}

C19_StoppedBufferIsFinal ==
    [][/\ (~recording /\ cb_pc = "idle") =>
              (cb_pc' = "idle" /\ audio_buffer' = audio_buffer)
       /\ audio_buffer' # audio_buffer =>
              /\ cb_pc = "append"
              /\ \E n \in BlockFrames : audio_buffer' = Append(audio_buffer, n)
       /\ (~recording /\ ctl_pc \in C19_FinalPcs) =>
              audio_buffer' = audio_buffer
       /\ (~recording /\ C19_Cloned') =>
              remaining_samples' = [from |-> 0, len |-> SumSeq(audio_buffer')]
      ]_vars

C19_Witness ==
    /\ ~recording
    /\ ctl_pc = "drain_engine"
    /\ BufLen >= 2 * WhisperRate
    /\ remaining_samples = [from |-> 0, len |-> BufLen]

\* C20: when the periodic thread books a chunk, the lines of that chunk in the
\* file are, in engine order, exactly the segments for which no getter and no
\* write failed, and the chunk index and the cursor move as for any chunk.
RECURSIVE C20_LineIndexes(_, _)
C20_LineIndexes(f, k) ==
    IF f = <<>> THEN <<>>
    ELSE IF Head(f).kind = "periodic" /\ Head(f).k = k
         THEN <<Head(f).i>> \o C20_LineIndexes(Tail(f), k)
         ELSE C20_LineIndexes(Tail(f), k)

RECURSIVE C20_Kept(_, _)
C20_Kept(j, n) ==
    IF j >= n THEN <<>>
    ELSE IF j \in failures THEN C20_Kept(j + 1, n)
    ELSE <<j>> \o C20_Kept(j + 1, n)

C20_FailedSegmentAloneIsOmitted ==
    [][(sched_pc = "emit" /\ sched_pc' = "sleep") =>
          /\ C20_LineIndexes(file, segment_counter) = C20_Kept(0, Len(segs))
          /\ segment_counter' = segment_counter + 1
          /\ last_processed' =
                last_processed + Len16k(samples_to_process.len)
      ]_vars

C20_Witness ==
    /\ sched_pc = "emit"
    /\ seg_i = Len(segs)
    /\ failures = {0}
    /\ C20_LineIndexes(file, segment_counter) = <<1>>

\* C21: segment_counter and last_processed change only in a step of the
\* periodic thread; segment_counter starts at 0 and, whenever the thread is
\* between two chunks, equals the number of chunks it has handed to
\* state.full; the lines of the periodic thread are in the file by
\* non-decreasing chunk index, those of one chunk next to one another and by
\* increasing segment index.
C21_IsSched(d) == d.by = "sched"

C21_BetweenChunks == sched_pc \in {"unspawned", "sleep", "lock", "snap", "exit"}

C21_OnlySchedulerMoves ==
    (segment_counter' # segment_counter \/ last_processed' # last_processed)
        => (sched_pc = "emit" /\ sched_pc' = "sleep" /\ UNCHANGED ctlVars
            /\ UNCHANGED cbVars)

C21_OnePerDispatchedChunk ==
    /\ sched_pc = "unspawned" => segment_counter = 0
    /\ C21_BetweenChunks =>
          segment_counter = Len(SelectSeq(dispatched, C21_IsSched))

C21_LinesInOrder ==
    \A a \in PeriodicLines : \A b \in PeriodicLines :
        a < b =>
            /\ file[a].k <= file[b].k
            /\ file[a].k = file[b].k =>
                  /\ file[a].i < file[b].i
                  /\ \A c \in a..b : file[c].kind = "periodic"
                                       /\ file[c].k = file[a].k

C21_SoleAdvancerAndOrder ==
    /\ [](C21_OnePerDispatchedChunk /\ C21_LinesInOrder)
    /\ [][C21_OnlySchedulerMoves]_vars

\* C22: in a session that reached DONE the file is the header, then only
\* periodic and drain lines, then the footer; at every moment the header is
\* the first line as soon as the transcription thread exists, a footer is the
\* last line, and once the footer is in the file the transcription thread
\* has left its loop, so that no line can come before the header or after
\* the footer.
C22_HasFooter == \E i \in 1..Len(file) : file[i] = Footer
C22_Framed ==
    /\ Len(file) >= 2
    /\ file[1] = Header
    /\ file[Len(file)] = Footer
    /\ \A i \in 2..(Len(file) - 1) : file[i].kind \in {"periodic", "drain"}
C22_HeaderFirstFooterLast ==
    /\ ctl_pc = "done" => C22_Framed
    /\ sched_pc # "unspawned" => (Len(file) >= 1 /\ file[1] = Header)
    /\ \A i \in 1..Len(file) : file[i] = Header => i = 1
    /\ C22_HasFooter => (sched_pc = "exit" /\ C22_Framed)
C22_Witness ==
    /\ ctl_pc = "done"
    /\ PeriodicLines # {}
    /\ DrainLines # {}
    /\ C22_Framed

\* C23: no thread holds the audio_buffer mutex and the file mutex together;
\* a thread that is about to lock one of them holds neither, and the control
\* path holds neither when it joins the transcription thread; hence whoever
\* holds a mutex can always take the step that releases it, and a session
\* that has not ended can always take a step.
C23_Threads == {"cb", "sched", "ctl"}
C23_Held(t) ==
    (IF buf_lock = t THEN {"audio_buffer"} ELSE {})
        \cup (IF file_lock = t THEN {"file"} ELSE {})
C23_AboutToLock(t) ==
    \/ t = "cb" /\ cb_pc = "lock"
    \/ t = "sched" /\ sched_pc \in {"lock", "flock"}
    \/ t = "ctl" /\ ctl_pc \in {"drain_lock", "drain_flock", "footer_lock"}
C23_NoNesting ==
    /\ \A t \in C23_Threads :
          /\ Cardinality(C23_Held(t)) <= 1
          /\ C23_AboutToLock(t) => C23_Held(t) = {}
    /\ ctl_pc = "join" => C23_Held("ctl") = {}
C23_HolderCanRelease ==
    ~Exited =>
        /\ buf_lock = "cb" => ENABLED CbAppend
        /\ buf_lock = "sched" => ENABLED SchedSnapshot
        /\ buf_lock = "ctl" => ENABLED DrainSnapshot
        /\ file_lock = "sched" => ENABLED SchedWrite
        /\ file_lock = "ctl" => ENABLED (DrainWrite \/ WriteFooter)
        /\ ENABLED Next
C23_NoLockNestingNoDeadlock == C23_NoNesting /\ C23_HolderCanRelease
C23_Witness ==
    /\ sched_pc = "flock"
    /\ file_lock = "ctl"
    /\ ctl_pc = "drain_write"
    /\ d_i >= Len(d_segs)

====
